---------------------------- MODULE Spec2Model ----------------------------
(***************************************************************************)
(* Model of src/app.py: the GraphQL client helper execute_graphql, the two *)
(* cursor pagination loops (view_family_instances, view_colored_categories)*)
(* and the category reconciliation (view_category_summary,                 *)
(* view_category_data, download_category_report).                          *)
(***************************************************************************)
EXTENDS Integers, Sequences, FiniteSets, TLC

VARIABLES
    op,                        \* the controller method that is running
    pc,                        \* "idle" | "loop" | "done" | "raised"
    params,                    \* the params the method reads
    token_requests,            \* get_access_token calls of this invocation
    catIdx,                    \* position of the for loop (category / row)
    cursor,                    \* local `cursor` of the pagination loop
    pageNo,                    \* requests issued so far for this category
    request,                   \* variables.pagination of the last request
    resp,                      \* the last HTTP response received
    gql,                       \* how the last execute_graphql call ended
    outcome,                   \* how the last loop iteration ended
    all_instances,             \* view_family_instances: collected records
    external_ids_with_colors,  \* view_colored_categories: collected entries
    warnings,                  \* vkt.UserMessage.warning calls
    gql_log,                   \* queries sent by a reconciliation method
    model_category_counts,     \* reconciliation: category -> element count
    result,                    \* what the method returned
    error,                     \* the exception that ended the method
    served                     \* the pages the API holds for a category

vars == <<op, pc, params, token_requests, catIdx, cursor, pageNo, request,
          resp, gql, outcome, all_instances, external_ids_with_colors, warnings,
          gql_log, model_category_counts, result, error, served>>

-----------------------------------------------------------------------------
(* Bounds of the model *)

MaxPageLen == 2        \* elements on one page of an API response
MaxCollected == 2      \* records one invocation collects
MaxPages == 2          \* pageNo counts up to this value and then stays
MaxRows == 2           \* rows of params.required_categories
MaxValues == 2         \* entries of the aggregate category-count response
MaxServed == 3         \* pages the API holds for a category

-----------------------------------------------------------------------------
(* Python values *)

None == "None"                  \* Python None / JSON null / missing key
Truthy(x) == x \notin {None, ""}

RECURSIVE Concat(_)
Concat(ss) == IF ss = <<>> THEN <<>> ELSE Head(ss) \o Concat(Tail(ss))

SeqsUpTo(S, n) == UNION {[1..k -> S] : k \in 0..n}

Min(a, b) == IF a < b THEN a ELSE b

-----------------------------------------------------------------------------
(* HTTP responses of the GraphQL endpoint.  A response is a status and a   *)
(* JSON object body; the body's entries are given by what the code reads.  *)

\* body["errors"]: missing, null, an empty list or a list of errors
ErrorsValues == {"absent", "null", "[]", "[error]"}

\* pagination.cursor of a page: null, or a cursor string
Cursors == {None, "c1", "c2"}

E1 == [name |-> "B1",
       properties |-> <<[name |-> "Family Name", value |-> "W-Shape"],
                        [name |-> "Type Name", value |-> "W12"]>>,
       externalElementId |-> "x1"]
E2 == [name |-> "B2",
       properties |-> <<[name |-> "Type Name", value |-> ""]>>,
       externalElementId |-> None]
Elements == {E1, E2}

Pages == SeqsUpTo(Elements, MaxPageLen)

\* status 0: requests.post raised (timeout, connection error) and there is
\* no response; body "text": the body is not a JSON object, resp.json()
\* raises or body.get does
Response(st, bo, er, da, bl, rs, cu, vs) ==
    [status |-> st, body |-> bo, errors |-> er, data |-> da, block |-> bl,
     results |-> rs, cursor |-> cu, values |-> vs]

\* no request has been sent
NoResponse == Response(0 - 1, "text", "absent", "absent", "absent", <<>>, None, <<>>)

RequestFailed == Response(0, "text", "absent", "absent", "absent", <<>>, None, <<>>)

NotJson == Response(200, "text", "absent", "absent", "absent", <<>>, None, <<>>)

\* the data part of a body answering the paged elementsByElementGroup query
PageData ==
    {<<"absent", "absent", <<>>, None>>, <<"null", "absent", <<>>, None>>,
     <<"object", "absent", <<>>, None>>, <<"object", "null", <<>>, None>>}
    \cup {<<"object", "object", p, c>> : p \in Pages, c \in Cursors}
    \cup {<<"object", "object", <<E1>>, "">>}

\* the responses the pagination loops are run against
PageResponses ==
    {RequestFailed, NotJson,
     Response(500, "json", "absent", "absent", "absent", <<>>, None, <<>>),
     Response(200, "json", "[error]", "object", "object", <<E1>>, "c1", <<>>)}
    \cup {Response(200, "json", "[]", d[1], d[2], d[3], d[4], <<>>) : d \in PageData}

\* the responses execute_graphql is checked against
GraphqlResponses ==
    {RequestFailed}
    \cup {Response(st, bo, er, d[1], d[2], d[3], d[4], <<>>) :
             st \in {200, 500}, bo \in {"json"}, er \in ErrorsValues,
             d \in PageData}
    \cup {Response(st, "text", "absent", "absent", "absent", <<>>, None, <<>>) :
             st \in {200, 500}}

-----------------------------------------------------------------------------
(* execute_graphql *)

\* body.get("errors") is truthy
ErrorsTruthy(er) == er = "[error]"

\* body.get("data", {}): the default is used only when the key is missing
BodyGetData(da) ==
    CASE da = "absent" -> "{}"
      [] da = "null" -> "None"
      [] OTHER -> "data"

NoCall == [raised |-> FALSE, exc |-> "", ret |-> "n/a"]

\* an execute_graphql that returns the data of a 200 response that has data,
\* whether or not the body reports errors
execute_graphql_DataWins(r) ==
    IF r.status = 0
    THEN [raised |-> TRUE, exc |-> "RequestException", ret |-> "n/a"]
    ELSE IF r.status # 200
    THEN [raised |-> TRUE, exc |-> "RuntimeError: HTTP", ret |-> "n/a"]
    ELSE IF r.body # "json"
    THEN [raised |-> TRUE, exc |-> "ValueError", ret |-> "n/a"]
    ELSE IF ErrorsTruthy(r.errors) /\ r.data # "object"
    THEN [raised |-> TRUE, exc |-> "RuntimeError: GraphQL errors", ret |-> "n/a"]
    ELSE [raised |-> FALSE, exc |-> "", ret |-> BodyGetData(r.data)]

\* requests.post, the status check, resp.json(), the errors check, the return
execute_graphql(r) ==
    IF r.status = 0
    THEN [raised |-> TRUE, exc |-> "RequestException", ret |-> "n/a"]
    ELSE IF r.status # 200
    THEN [raised |-> TRUE, exc |-> "RuntimeError: HTTP", ret |-> "n/a"]
    ELSE IF r.body # "json"
    THEN [raised |-> TRUE, exc |-> "ValueError", ret |-> "n/a"]
    ELSE IF ErrorsTruthy(r.errors)
    THEN [raised |-> TRUE, exc |-> "RuntimeError: GraphQL errors", ret |-> "n/a"]
    ELSE [raised |-> FALSE, exc |-> "", ret |-> BodyGetData(r.data)]

\* the returned value is a dict
IsDict(ret) == ret \in {"{}", "data"}

-----------------------------------------------------------------------------
(* Parameters *)

\* the options of required_categories.category, also the master list
all_categories ==
    <<"Structural Framing", "Structural Columns", "Structural Foundations",
      "Walls", "Floors", "Roofs", "Ceilings", "Doors", "Windows", "Stairs",
      "Railings", "Curtain Panels", "Curtain Wall Mullions", "Furniture",
      "Mechanical Equipment", "Plumbing Fixtures", "Lighting Fixtures",
      "Electrical Equipment", "Ducts", "Pipes">>

\* the categories view_family_instances queries
categories ==
    <<"Structural Framing", "Structural Columns", "Walls", "Floors", "Doors",
      "Windows">>

\* the row values the model draws params.required_categories from
Rows ==
    {[category |-> "Structural Framing", color |-> <<255, 0, 0>>],
     [category |-> "Walls", color |-> <<0, 0, 255>>]}
RowSeqs == SeqsUpTo(Rows, MaxRows)

HexDigits == <<"0", "1", "2", "3", "4", "5", "6", "7", "8", "9",
               "a", "b", "c", "d", "e", "f">>
Hex2(n) == <<HexDigits[(n \div 16) + 1], HexDigits[(n % 16) + 1]>>

\* vkt.Color.hex: "#rrggbb", here as the sequence of its characters
ColorHex(c) == <<"#">> \o Hex2(c[1]) \o Hex2(c[2]) \o Hex2(c[3])

NoParams == [autodesk_file |-> FALSE, required_categories |-> <<>>]

-----------------------------------------------------------------------------
(* The pagination loop, as both views write it *)

limit == 100

\* a loop that starts from the cursor the previous loop left behind
StartCursor_Stale(prev) == prev

\* `cursor = None` before `while True`; prev is the value the name had
StartCursor(prev) == None

\* a collection that starts from what the name last held
NewList_Stale(prev) == prev

\* `all_instances = []`, `external_ids_with_colors = []`; prev is the value
\* the name had
NewList(prev) == <<>>

\* a count mapping that starts from what the name last held
NewCounts_Stale(prev) == prev

\* `model_category_counts = {}`; prev is the value the name had
NewCounts(prev) == <<>>

\* a request that never carries the cursor
PaginationVariables_NoCursor(cur) ==
    [keys |-> {"limit"}, cursor |-> None, limit |-> 100]

\* variables["pagination"]
PaginationVariables(cur) ==
    IF ~Truthy(cur)
    THEN [keys |-> {"limit"}, cursor |-> None, limit |-> limit]
    ELSE [keys |-> {"cursor", "limit"}, cursor |-> cur, limit |-> limit]

NoRequest == [idx |-> 0, page |-> 0,
              pagination |-> [keys |-> {}, cursor |-> None, limit |-> 0]]

\* a try block that only execute_graphql can leave by an exception
Raises_OnlyExecute(g) == g.raised

\* data.get(...) on the returned value raises AttributeError when it is None
Raises(g) == g.raised \/ g.ret = "None"

Exception(g) == IF g.raised THEN g.exc ELSE "AttributeError"

\* block = data.get("elementsByElementGroup", {}) or {};
\* page_results = block.get("results", []) or []
PageResults(r, g) ==
    IF g.ret = "data" /\ r.block = "object" THEN r.results ELSE <<>>

\* page = block.get("pagination", {}) or {}; new_cursor = page.get("cursor")
NewCursor(r, g) ==
    IF g.ret = "data" /\ r.block = "object" THEN r.cursor ELSE None

\* a break without the empty-page test
ShouldStop_NoEmptyPage(new_cursor, cur, page_results) ==
    \/ ~Truthy(new_cursor)
    \/ new_cursor = cur

\* a break without the repeated-cursor test
ShouldStop_NoRepeat(new_cursor, cur, page_results) ==
    \/ ~Truthy(new_cursor)
    \/ Len(page_results) = 0

\* a break that compares the new cursor with nothing but None
ShouldStop_OnlyAbsent(new_cursor, cur, page_results) ==
    new_cursor = None \/ new_cursor = cur

\* the condition of the break
ShouldStop(new_cursor, cur, page_results) ==
    \/ ~Truthy(new_cursor)
    \/ new_cursor = cur
    \/ Len(page_results) = 0

-----------------------------------------------------------------------------
(* view_family_instances *)

\* what the running view has collected
Collected ==
    IF op = "view_family_instances" THEN all_instances
    ELSE external_ids_with_colors

RECURSIVE ScanProperties(_, _, _)
\* the loop over element.properties.results: the last match of a name wins
ScanProperties(props, family_name, type_name) ==
    IF props = <<>> THEN <<family_name, type_name>>
    ELSE LET prop == Head(props)
             val == IF Truthy(prop.value) THEN prop.value ELSE "Unknown"
         IN  IF prop.name = "Family Name"
             THEN ScanProperties(Tail(props), val, type_name)
             ELSE IF prop.name = "Type Name"
                  THEN ScanProperties(Tail(props), family_name, val)
                  ELSE ScanProperties(Tail(props), family_name, type_name)

FamilyRecord(category, element) ==
    LET ft == ScanProperties(element.properties, "Unknown", "Unknown")
    IN  [category |-> category, family_name |-> ft[1], type_name |-> ft[2],
         element_name |-> element.name]

\* records for all elements of a page but the last
FamilyRecords_DropLast(category, page_results) ==
    [i \in 1..(Len(page_results) - 1) |-> FamilyRecord(category, page_results[i])]

FamilyRecords(category, page_results) ==
    [i \in 1..Len(page_results) |-> FamilyRecord(category, page_results[i])]

NoResult == [kind |-> "none", rows |-> <<>>]

FamilyTable(instances) ==
    IF instances = <<>>
    THEN [kind |-> "TableResult",
          rows |-> <<<<"No family instances found in the selected categories">>>>]
    ELSE [kind |-> "TableResult",
          rows |-> [i \in 1..Len(instances) |->
                      <<instances[i].category, instances[i].family_name,
                        instances[i].type_name, instances[i].element_name>>]]

SelectFileError == "UserError: Please select an Autodesk file from the input field above"

view_family_instances_start(file) ==
    /\ pc = "idle"
    /\ op' = "view_family_instances"
    /\ params' = [autodesk_file |-> file, required_categories |-> <<>>]
    /\ request' = NoRequest /\ resp' = NoResponse /\ gql' = NoCall
    /\ outcome' = "none" /\ warnings' = <<>> /\ gql_log' = <<>>
    /\ result' = NoResult
    /\ pageNo' = 0
    /\ UNCHANGED <<external_ids_with_colors, model_category_counts, served>>
    /\ IF ~file
       THEN /\ pc' = "raised" /\ error' = SelectFileError
            /\ token_requests' = 0
            /\ catIdx' = 0
            /\ UNCHANGED <<cursor, all_instances>>
       ELSE /\ pc' = "loop" /\ error' = ""
            /\ token_requests' = 1
            /\ all_instances' = NewList(all_instances)
            /\ catIdx' = 1
            /\ cursor' = StartCursor(cursor)

\* one iteration of `while True`, up to the next request or the return
FamilyIteration(r) ==
    LET g == execute_graphql(r)
        page_results == PageResults(r, g)
        new_cursor == NewCursor(r, g)
        instances == all_instances \o FamilyRecords(categories[catIdx], page_results)
    IN  /\ request' = [idx |-> catIdx, page |-> Min(pageNo + 1, MaxPages),
                       pagination |-> PaginationVariables(cursor)]
        /\ resp' = r /\ gql' = g
        /\ UNCHANGED <<op, params, token_requests, warnings, gql_log,
                       external_ids_with_colors, model_category_counts, served>>
        /\ IF Raises(g)
           THEN /\ pc' = "raised" /\ error' = Exception(g)
                /\ outcome' = "raise"
                /\ pageNo' = Min(pageNo + 1, MaxPages)
                /\ UNCHANGED <<catIdx, cursor, all_instances, result>>
           ELSE /\ all_instances' = instances
                /\ error' = ""
                /\ IF ~ShouldStop(new_cursor, cursor, page_results)
                   THEN /\ outcome' = "continue"
                        /\ cursor' = new_cursor
                        /\ pageNo' = Min(pageNo + 1, MaxPages)
                        /\ UNCHANGED <<pc, catIdx, result>>
                   ELSE /\ outcome' = "stop"
                        /\ pageNo' = 0
                        /\ IF catIdx < Len(categories)
                           THEN /\ catIdx' = catIdx + 1
                                /\ cursor' = StartCursor(cursor)
                                /\ UNCHANGED <<pc, result>>
                           ELSE /\ pc' = "done"
                                /\ result' = FamilyTable(instances)
                                /\ UNCHANGED <<catIdx, cursor>>

\* the model follows an invocation while it has collected at most
\* MaxCollected records
WithinBound(r) ==
    LET page_results == PageResults(r, execute_graphql(r))
        added == IF op = "view_family_instances" THEN Len(page_results)
                 ELSE Len(SelectSeq(page_results,
                                    LAMBDA e : Truthy(e.externalElementId)))
    IN  Len(Collected) + added <= MaxCollected

view_family_instances_page ==
    /\ op = "view_family_instances" /\ pc = "loop"
    /\ \E r \in PageResponses : WithinBound(r) /\ FamilyIteration(r)

-----------------------------------------------------------------------------
(* view_colored_categories *)

\* the entries one page adds: {external_id: color_hex} per element that has
\* an external ID
RECURSIVE ColoredEntries(_, _)
ColoredEntries(page_results, color_hex) ==
    IF page_results = <<>> THEN <<>>
    ELSE LET external_id == Head(page_results).externalElementId
         IN  (IF Truthy(external_id)
              THEN <<[id |-> external_id, color |-> color_hex]>>
              ELSE <<>>)
             \o ColoredEntries(Tail(page_results), color_hex)

WebResult(entries) == [kind |-> "WebResult", rows |-> entries]

Warning(category_name, exc) ==
    [text |-> "Could not fetch elements for category", category |-> category_name,
     exc |-> exc]

view_colored_categories_start(file, rows) ==
    /\ pc = "idle"
    /\ op' = "view_colored_categories"
    /\ params' = [autodesk_file |-> file, required_categories |-> rows]
    /\ request' = NoRequest /\ resp' = NoResponse /\ gql' = NoCall
    /\ outcome' = "none" /\ warnings' = <<>> /\ gql_log' = <<>>
    /\ pageNo' = 0
    /\ UNCHANGED <<all_instances, model_category_counts, served>>
    /\ IF ~file
       THEN /\ pc' = "raised" /\ error' = SelectFileError
            /\ token_requests' = 0
            /\ catIdx' = 0 /\ result' = NoResult
            /\ UNCHANGED <<cursor, external_ids_with_colors>>
       ELSE /\ error' = ""
            /\ token_requests' = 1
            /\ external_ids_with_colors' = NewList(external_ids_with_colors)
            /\ IF rows = <<>>
               THEN /\ pc' = "done" /\ result' = WebResult(external_ids_with_colors')
                    /\ catIdx' = 0
                    /\ UNCHANGED cursor
               ELSE /\ pc' = "loop" /\ result' = NoResult
                    /\ catIdx' = 1
                    /\ cursor' = StartCursor(cursor)

\* one iteration of `while True`, up to the next request or the return
ColoredIteration(r) ==
    LET row == params.required_categories[catIdx]
        g == execute_graphql(r)
        page_results == PageResults(r, g)
        new_cursor == NewCursor(r, g)
        entries == external_ids_with_colors
                     \o ColoredEntries(page_results, ColorHex(row.color))
        continue == ~Raises(g) /\ ~ShouldStop(new_cursor, cursor, page_results)
    IN  /\ request' = [idx |-> catIdx, page |-> Min(pageNo + 1, MaxPages),
                       pagination |-> PaginationVariables(cursor)]
        /\ resp' = r /\ gql' = g
        /\ error' = ""
        /\ UNCHANGED <<op, params, token_requests, gql_log, all_instances,
                       model_category_counts, served>>
        /\ external_ids_with_colors' = entries
        /\ warnings' = IF Raises(g)
                       THEN Append(warnings, Warning(row.category, Exception(g)))
                       ELSE warnings
        /\ outcome' = IF Raises(g) THEN "raise"
                      ELSE IF continue THEN "continue" ELSE "stop"
        /\ IF continue
           THEN /\ cursor' = new_cursor
                /\ pageNo' = Min(pageNo + 1, MaxPages)
                /\ UNCHANGED <<pc, catIdx, result>>
           ELSE /\ pageNo' = 0
                /\ IF catIdx < Len(params.required_categories)
                   THEN /\ catIdx' = catIdx + 1
                        /\ cursor' = StartCursor(cursor)
                        /\ UNCHANGED <<pc, result>>
                   ELSE /\ pc' = "done"
                        /\ result' = WebResult(entries)
                        /\ UNCHANGED <<catIdx, cursor>>

view_colored_categories_page ==
    /\ op = "view_colored_categories" /\ pc = "loop"
    /\ \E r \in PageResponses : WithinBound(r) /\ ColoredIteration(r)

-----------------------------------------------------------------------------
(* Category reconciliation: view_category_summary, view_category_data and  *)
(* download_category_report                                                *)

\* the entries of results[*].values[*] of the aggregate response, in order
ValueNames == {"Structural Framing", "Walls", "Doors", "Generic Models", ""}
\* "count": null; the counts of the model are integers, and the one below
\* zero stands for null
NullCount == 0 - 1

ValueEntries == [value : ValueNames, count : {0, 3, NullCount}]
ValueSeqs == SeqsUpTo(ValueEntries, MaxValues)

\* an entry of values that is JSON null instead of an object: v.get raises
\* AttributeError
NullEntry == [value |-> "not an object", count |-> 0]

\* the responses the reconciliation methods are run against
AggregateResponses ==
    {RequestFailed, NotJson,
     Response(500, "json", "absent", "absent", "absent", <<>>, None, <<>>),
     Response(200, "json", "[error]", "object", "object", <<>>, None,
              <<[value |-> "Walls", count |-> 3]>>),
     Response(200, "json", "absent", "absent", "absent", <<>>, None, <<>>),
     Response(200, "json", "absent", "null", "absent", <<>>, None, <<>>),
     Response(200, "json", "absent", "object", "null", <<>>, None, <<>>),
     Response(200, "json", "absent", "object", "object", <<>>, None,
              <<[value |-> "Walls", count |-> 3], NullEntry,
                [value |-> "Doors", count |-> 3]>>)}
    \cup {Response(200, "json", "absent", "object", "object", <<>>, None, vs) :
             vs \in ValueSeqs}

\* the queries a reconciliation method sends
ReconcileQueries_Twice == <<"UsedCategories", "UsedCategories">>

ReconcileQueries == <<"UsedCategories">>

\* required_categories = set(row["category"] for row in ...)
RequiredCategories_FirstRow(rows) ==
    IF rows = <<>> THEN {} ELSE {rows[1].category}

RequiredCategories(rows) == {rows[i].category : i \in DOMAIN rows}

\* results_list and its values, read with `or []`
ValuesOf(r, g) ==
    IF g.ret = "data" /\ r.block = "object" THEN r.values ELSE <<>>

\* the loop over the values raises at an entry that is not an object
ReadRaises(values) == \E i \in DOMAIN values : values[i] = NullEntry

RECURSIVE BuildCounts(_, _)
\* the loop that fills model_category_counts: a later entry of a name
\* replaces an earlier one, an entry without name is skipped, and the loop
\* ends where reading an entry raises
BuildCounts(values, counts) ==
    IF values = <<>> \/ Head(values) = NullEntry THEN counts
    ELSE LET v == Head(values)
         IN  BuildCounts(Tail(values),
                 IF Truthy(v.value)
                 THEN [n \in DOMAIN counts \cup {v.value} |->
                          IF n = v.value THEN v.count ELSE counts[n]]
                 ELSE counts)

\* model_category_counts.get(category_name, 0)
CountOf(counts, category_name) ==
    IF category_name \in DOMAIN counts THEN counts[category_name] ELSE 0

\* `element_count > 0` raises TypeError when the count is None: the loops
\* after the try block compare the count of every master-list category
CompareRaises(counts) ==
    \E i \in 1..Len(all_categories) :
        CountOf(counts, all_categories[i]) = NullCount

InModel_NonNegative(element_count) == element_count >= 0

InModel(element_count) == element_count > 0

\* the if / elif chain of the three methods: which of the four cases
Classification(in_contract, in_model) ==
    IF in_contract /\ in_model THEN "present"
    ELSE IF in_contract /\ ~in_model THEN "missing_from_model"
    ELSE IF ~in_contract /\ in_model THEN "missing_from_contract"
    ELSE "not_applicable"

StatusOf(category_name, required, counts) ==
    Classification(category_name \in required,
                   InModel(CountOf(counts, category_name)))

SummaryText(class) ==
    CASE class = "present" -> "Present in contract and model"
      [] class = "missing_from_model" -> "In contract but not in model"
      [] class = "missing_from_contract" -> "Missing in the contract"
      [] OTHER -> "Not in contract, not in model"

SummaryRow(category_name, required, counts) ==
    LET class == StatusOf(category_name, required, counts)
    IN  [category |-> category_name,
         symbol |-> IF class = "present" THEN "check" ELSE "cross",
         element_count |-> CountOf(counts, category_name),
         status_text |-> SummaryText(class)]

\* a table that also has a row for every counted name outside the master list
SummaryTable_WithModelRows(rows, counts) ==
    LET extra == {n \in DOMAIN counts :
                    \A i \in 1..Len(all_categories) : all_categories[i] # n}
        RECURSIVE RowsOf(_)
        RowsOf(S) == IF S = {} THEN <<>>
                     ELSE LET n == CHOOSE x \in S : TRUE
                          IN  <<SummaryRow(n, RequiredCategories(rows), counts)>>
                                \o RowsOf(S \ {n})
    IN  [kind |-> "TableResult",
         rows |-> [i \in 1..Len(all_categories) |->
                     SummaryRow(all_categories[i], RequiredCategories(rows), counts)]
                  \o RowsOf(extra)]

\* the table of view_category_summary
SummaryTable(rows, counts) ==
    [kind |-> "TableResult",
     rows |-> [i \in 1..Len(all_categories) |->
                 SummaryRow(all_categories[i], RequiredCategories(rows), counts)]]

\* a document row that takes every category as required
ReportRow_IgnoresContract(category_name, required, counts) ==
    LET class == Classification(TRUE, InModel(CountOf(counts, category_name)))
    IN  [category |-> category_name,
         symbol |-> IF class = "present" THEN "check" ELSE "cross",
         status_text |-> IF class = "present" THEN "Present (n elements)"
                         ELSE SummaryText(class),
         n |-> IF class = "present" THEN CountOf(counts, category_name) ELSE 0]

ReportRow(category_name, required, counts) ==
    LET class == StatusOf(category_name, required, counts)
    IN  [category |-> category_name,
         symbol |-> IF class = "present" THEN "check" ELSE "cross",
         status_text |-> IF class = "present" THEN "Present (n elements)"
                         ELSE SummaryText(class),
         n |-> IF class = "present" THEN CountOf(counts, category_name) ELSE 0]

\* the table of the document of download_category_report
ReportDocument(rows, counts) ==
    [kind |-> "DownloadResult",
     rows |-> [i \in 1..Len(all_categories) |->
                 ReportRow(all_categories[i], RequiredCategories(rows), counts)]]

DataItem(category_name, class, counts) ==
    [category |-> category_name,
     value |-> IF class \in {"present", "missing_from_contract"}
               THEN CountOf(counts, category_name) ELSE 0,
     status_message |-> SummaryText(class)]

\* the items of one status group, in master-list order
GroupItems(class, required, counts) ==
    LET idx == SelectSeq([i \in 1..Len(all_categories) |-> i],
                  LAMBDA i : StatusOf(all_categories[i], required, counts) = class)
    IN  [k \in 1..Len(idx) |-> DataItem(all_categories[idx[k]], class, counts)]

GroupOrder == <<"present", "missing_from_model", "missing_from_contract",
                "not_applicable">>

\* a data tree that shows its four groups also when they are empty
DataTree_ShowsEmptyGroups(rows, counts) ==
    LET required == RequiredCategories(rows)
        matched == Cardinality({c \in required : CountOf(counts, c) > 0})
        groups == [k \in 1..Len(GroupOrder) |->
                     [label |-> GroupOrder[k],
                      items |-> GroupItems(GroupOrder[k], required, counts)]]
    IN  [kind |-> "DataResult",
         total_categories |-> Len(all_categories),
         categories_in_model |->
             Cardinality({i \in 1..Len(all_categories) :
                            CountOf(counts, all_categories[i]) > 0}),
         categories_in_contract |-> Cardinality(required),
         categories_matched |-> matched,
         matched_status |-> IF matched = Cardinality(required)
                            THEN "SUCCESS" ELSE "WARNING",
         rows |-> groups]

\* a data tree that counts the rows of the required list, not its categories
DataTree_CountsRows(rows, counts) ==
    LET required == RequiredCategories(rows)
        matched == Cardinality({c \in required : CountOf(counts, c) > 0})
        groups == [k \in 1..Len(GroupOrder) |->
                     [label |-> GroupOrder[k],
                      items |-> GroupItems(GroupOrder[k], required, counts)]]
    IN  [kind |-> "DataResult",
         total_categories |-> Len(all_categories),
         categories_in_model |->
             Cardinality({i \in 1..Len(all_categories) :
                            CountOf(counts, all_categories[i]) > 0}),
         categories_in_contract |-> Len(rows),
         categories_matched |-> matched,
         matched_status |-> IF matched = Len(rows)
                            THEN "SUCCESS" ELSE "WARNING",
         rows |-> SelectSeq(groups, LAMBDA grp : Len(grp.items) > 0)]

\* the data tree of view_category_data
DataTree(rows, counts) ==
    LET required == RequiredCategories(rows)
        matched == Cardinality({c \in required : CountOf(counts, c) > 0})
        groups == [k \in 1..Len(GroupOrder) |->
                     [label |-> GroupOrder[k],
                      items |-> GroupItems(GroupOrder[k], required, counts)]]
    IN  [kind |-> "DataResult",
         total_categories |-> Len(all_categories),
         categories_in_model |->
             Cardinality({i \in 1..Len(all_categories) :
                            CountOf(counts, all_categories[i]) > 0}),
         categories_in_contract |-> Cardinality(required),
         categories_matched |-> matched,
         matched_status |-> IF matched = Cardinality(required)
                            THEN "SUCCESS" ELSE "WARNING",
         rows |-> SelectSeq(groups, LAMBDA grp : Len(grp.items) > 0)]

ReconcileOps ==
    {"view_category_summary", "view_category_data", "download_category_report"}

Present(method, rows, counts) ==
    CASE method = "view_category_summary" -> SummaryTable(rows, counts)
      [] method = "view_category_data" -> DataTree(rows, counts)
      [] OTHER -> ReportDocument(rows, counts)

FetchError == "UserError: Failed to fetch categories from model"

\* one invocation of a reconciliation method, from the file check to the
\* return, with r the response to the aggregate query
Reconcile(method, file, rows, r) ==
    LET g == execute_graphql(r)
        counts == BuildCounts(ValuesOf(r, g), NewCounts(model_category_counts))
    IN  /\ op' = method
        /\ params' = [autodesk_file |-> file, required_categories |-> rows]
        /\ catIdx' = 0 /\ pageNo' = 0
        /\ request' = NoRequest /\ outcome' = "none"
        /\ warnings' = <<>>
        /\ UNCHANGED <<cursor, all_instances, external_ids_with_colors, served>>
        /\ IF ~file
           THEN /\ pc' = "raised" /\ error' = SelectFileError
                /\ token_requests' = 0
                /\ gql_log' = <<>> /\ resp' = NoResponse /\ gql' = NoCall
                /\ UNCHANGED model_category_counts
                /\ result' = NoResult
           ELSE /\ token_requests' = 1
                /\ gql_log' = ReconcileQueries
                /\ resp' = r /\ gql' = g
                /\ IF Raises(g)
                   THEN /\ pc' = "raised" /\ error' = FetchError
                        /\ UNCHANGED model_category_counts
                        /\ result' = NoResult
                   ELSE IF ReadRaises(ValuesOf(r, g))
                   THEN /\ pc' = "raised" /\ error' = FetchError
                        /\ model_category_counts' = counts
                        /\ result' = NoResult
                   ELSE IF CompareRaises(counts)
                   THEN /\ pc' = "raised" /\ error' = "TypeError"
                        /\ model_category_counts' = counts
                        /\ result' = NoResult
                   ELSE /\ pc' = "done" /\ error' = ""
                        /\ model_category_counts' = counts
                        /\ result' = Present(method, rows, model_category_counts')

view_category_summary ==
    /\ pc = "idle"
    /\ \E file \in BOOLEAN, rows \in RowSeqs, r \in AggregateResponses :
          Reconcile("view_category_summary", file, rows, r)

view_category_data ==
    /\ pc = "idle"
    /\ \E file \in BOOLEAN, rows \in RowSeqs, r \in AggregateResponses :
          Reconcile("view_category_data", file, rows, r)

download_category_report ==
    /\ pc = "idle"
    /\ \E file \in BOOLEAN, rows \in RowSeqs, r \in AggregateResponses :
          Reconcile("download_category_report", file, rows, r)

-----------------------------------------------------------------------------
(* Specifications *)

Init ==
    /\ op = "none" /\ pc = "idle"
    /\ params = NoParams
    /\ token_requests = 0
    /\ catIdx = 0 /\ cursor = None /\ pageNo = 0
    /\ request = NoRequest /\ resp = NoResponse /\ gql = NoCall
    /\ outcome = "none"
    /\ all_instances = <<>> /\ external_ids_with_colors = <<>>
    /\ warnings = <<>> /\ gql_log = <<>>
    /\ model_category_counts = <<>>
    /\ result = NoResult /\ error = ""
    /\ served = <<>>

\* the method has returned or raised: its frame, and with it every local, is
\* gone, and the controller waits for the next invocation
Return ==
    /\ pc \in {"done", "raised"}
    /\ op' = "none" /\ pc' = "idle"
    /\ params' = NoParams
    /\ token_requests' = 0
    /\ catIdx' = 0 /\ cursor' = None /\ pageNo' = 0
    /\ request' = NoRequest /\ resp' = NoResponse /\ gql' = NoCall
    /\ outcome' = "none"
    /\ all_instances' = <<>> /\ external_ids_with_colors' = <<>>
    /\ warnings' = <<>> /\ gql_log' = <<>>
    /\ model_category_counts' = <<>>
    /\ result' = NoResult /\ error' = ""
    /\ UNCHANGED served

StartFamily ==
    /\ pc = "idle"
    /\ \E file \in BOOLEAN : view_family_instances_start(file)

StartColored ==
    /\ pc = "idle"
    /\ \E file \in BOOLEAN, rows \in RowSeqs :
          view_colored_categories_start(file, rows)

\* the two paginating views against an API that may answer anything
NextPaging ==
    \/ StartFamily
    \/ view_family_instances_page
    \/ StartColored
    \/ view_colored_categories_page
    \/ Return

SpecPaging == Init /\ [][NextPaging]_vars

\* the three reconciliation methods
NextReconcile ==
    \/ view_category_summary
    \/ view_category_data
    \/ download_category_report
    \/ Return

SpecReconcile == Init /\ [][NextReconcile]_vars

SpecPagingFair == SpecPaging /\ WF_vars(NextPaging)

-----------------------------------------------------------------------------
(* What the last response says, read from the response itself *)

\* the last call of execute_graphql handed a page to the loop
PageReceived == request.page > 0 /\ ~gql.raised /\ gql.ret # "None"

HasBlock(r) ==
    r.status = 200 /\ r.body = "json" /\ r.data = "object" /\ r.block = "object"

\* the cursor the response returned, None when it has none
ReturnedCursor(r) == IF HasBlock(r) THEN r.cursor ELSE None

\* the elements of the page the response returned
ReturnedPage(r) == IF HasBlock(r) THEN r.results ELSE <<>>

\* the cursor that was sent with the last request
SentCursor == request.pagination.cursor

\* the loop of the category of the last request is over
LoopOver == pc # "loop" \/ catIdx # request.idx

-----------------------------------------------------------------------------
-----------------------------------------------------------------------------
(* C2 as stated: whatever the API answers, the pagination loop of a        *)
(* category issues finitely many requests and then stops, so a loop that   *)
(* has gone on after a response eventually stops.                          *)
C2_EveryLoopStops == [](outcome = "continue" => <>(outcome # "continue"))

(* C2, amended: the guard stops the loop only when the API returns the     *)
(* cursor it was just sent: two consecutive requests of a category never   *)
(* carry the same cursor, and every request after the first carries a      *)
(* non-empty cursor.  (An API that keeps returning non-empty pages with a  *)
(* cursor other than the one just sent keeps the loop going.)              *)
C2_NoImmediateRepeat ==
    [][(pc = "loop" /\ outcome = "continue") =>
          /\ request'.idx = request.idx
          /\ request'.pagination.cursor # request.pagination.cursor
          /\ Truthy(request'.pagination.cursor)]_vars

\* the loop has sent a cursor, got another one back and goes on
C2_Witness ==
    /\ pc = "loop" /\ outcome = "continue"
    /\ request.page = MaxPages
    /\ SentCursor = "c1" /\ cursor = "c2"

-----------------------------------------------------------------------------
(* C3: when the API returns a non-empty page whose cursor is the cursor    *)
(* just sent, the loop keeps the elements of that page, requests no        *)
(* further page for the category, and neither raises nor warns.            *)
StallResponse(r, sent) ==
    /\ HasBlock(r) /\ ~ErrorsTruthy(r.errors)
    /\ Len(r.results) > 0
    /\ Truthy(r.cursor) /\ r.cursor = sent

-----------------------------------------------------------------------------
(* C4: the first request of every category carries no cursor, only the     *)
(* limit, whatever the previous category's loop left behind; every later   *)
(* request of the category carries the cursor the preceding response       *)
(* returned; every request carries the limit 100.                          *)
C4_RequestCursor ==
    [][pc = "loop" =>
          LET q == request'.pagination
          IN  /\ q.limit = 100
              /\ request'.idx = catIdx
              /\ request.idx # catIdx => q.keys = {"limit"}
              /\ request.idx = catIdx =>
                    /\ q.keys = {"cursor", "limit"}
                    /\ q.cursor = ReturnedCursor(resp)]_vars

\* the loop of the first category ended on a repeated cursor, and the
\* second category has sent its first request, without a cursor, and then
\* one with the cursor it got back
C4_Witness ==
    /\ request.idx = 2 /\ request.page = 2
    /\ request.pagination = [keys |-> {"cursor", "limit"}, cursor |-> "c1", limit |-> 100]

-----------------------------------------------------------------------------
(* An API that holds, for every category, the pages `served`: a request    *)
(* without cursor gets the first page, a request with a cursor gets the    *)
(* page after the first one that returned this cursor, and a request past  *)
(* the last page gets an empty page without cursor.                        *)

CursorNames == <<"c1", "c2", "c3", "c4", "c5">>

ServedResults == {<<>>, <<E2, E1>>}

\* page i returns no cursor, a cursor of its own, or again the cursor that
\* the page before it returned
ServedPage(i) ==
    [results : ServedResults,
     cursor : {None, CursorNames[i]}
                \cup (IF i > 1 THEN {CursorNames[i - 1]} ELSE {})]

ServedSeqs ==
    UNION {{s \in [1..n -> UNION {ServedPage(i) : i \in 1..n}] :
               \A i \in 1..n : s[i] \in ServedPage(i)} : n \in 1..MaxServed}

RECURSIVE PageAfter(_, _, _)
PageAfter(pages, c, i) ==
    IF i > Len(pages) THEN i
    ELSE IF pages[i].cursor = c THEN i + 1 ELSE PageAfter(pages, c, i + 1)

ApiPageIndex(pages, q) ==
    IF "cursor" \in q.keys THEN PageAfter(pages, q.cursor, 1) ELSE 1

ApiResponse(pages, q) ==
    LET i == ApiPageIndex(pages, q)
    IN  IF i <= Len(pages)
        THEN Response(200, "json", "absent", "object", "object",
                      pages[i].results, pages[i].cursor, <<>>)
        ELSE Response(200, "json", "absent", "object", "object", <<>>, None, <<>>)

InitServed ==
    /\ op = "none" /\ pc = "idle"
    /\ params = NoParams
    /\ token_requests = 0
    /\ catIdx = 0 /\ cursor = None /\ pageNo = 0
    /\ request = NoRequest /\ resp = NoResponse /\ gql = NoCall
    /\ outcome = "none"
    /\ all_instances = <<>> /\ external_ids_with_colors = <<>>
    /\ warnings = <<>> /\ gql_log = <<>>
    /\ model_category_counts = <<>>
    /\ result = NoResult /\ error = ""
    /\ served \in ServedSeqs

ServedFamilyPage ==
    /\ op = "view_family_instances" /\ pc = "loop"
    /\ FamilyIteration(ApiResponse(served, PaginationVariables(cursor)))

ServedColoredPage ==
    /\ op = "view_colored_categories" /\ pc = "loop"
    /\ ColoredIteration(ApiResponse(served, PaginationVariables(cursor)))

NextServed ==
    \/ StartFamily
    \/ ServedFamilyPage
    \/ StartColored
    \/ ServedColoredPage
    \/ Return

SpecServed == InitServed /\ [][NextServed]_vars

\* every page but the last has results and a non-empty cursor that no
\* earlier page returned, and the last page returns no cursor
WellBehaved(pages) ==
    /\ Len(pages) >= 1
    /\ pages[Len(pages)].cursor = None
    /\ \A i \in 1..(Len(pages) - 1) :
          /\ Len(pages[i].results) > 0
          /\ Truthy(pages[i].cursor)
          /\ \A j \in 1..(i - 1) : pages[j].cursor # pages[i].cursor

\* the elements of all pages, in page order
AllElements(pages) == Concat([i \in 1..Len(pages) |-> pages[i].results])

\* the last request asked for the last page
LastPageFetched(pages) ==
    IF Len(pages) = 1 THEN request.pagination.keys = {"limit"}
    ELSE /\ request.pagination.keys = {"cursor", "limit"}
         /\ request.pagination.cursor = pages[Len(pages) - 1].cursor

-----------------------------------------------------------------------------
(* execute_graphql on its own, against every response *)

Execute ==
    /\ pc = "idle"
    /\ \E r \in GraphqlResponses :
          /\ resp' = r
          /\ gql' = execute_graphql(r)
    /\ UNCHANGED <<op, pc, params, token_requests, catIdx, cursor, pageNo,
                   request, outcome, all_instances, external_ids_with_colors,
                   warnings, gql_log, model_category_counts, result, error,
                   served>>

NextGraphql == Execute

SpecGraphql == Init /\ [][NextGraphql]_vars

Called == resp # NoResponse

\* a response has arrived and its body is a JSON object
JsonResponse == Called /\ resp.status # 0 /\ resp.body = "json"

(* C6 as stated: execute_graphql ends in an error if and only if the       *)
(* status is not 200 or the body has a non-empty errors entry.  (A request *)
(* that got no response counts here as a status that is not 200.)          *)
C6_RaisesIffStatusOrErrors ==
    Called =>
        (gql.raised <=> (resp.status # 200
                           \/ (resp.body = "json" /\ resp.errors = "[error]")))

(* C6, amended: when a response arrives whose body is a JSON object,       *)
(* execute_graphql raises if and only if the status is not 200 or the body *)
(* has a non-empty errors entry; the status is looked at first; a 200      *)
(* response with errors raises also when the body has data, so nothing is  *)
(* returned together with errors.  It also ends in an error when the       *)
(* request gets no response and when the body of a 200 response is not a   *)
(* JSON object.                                                            *)
C6_RaisesIff ==
    /\ JsonResponse =>
        /\ gql.raised <=> (resp.status # 200 \/ resp.errors = "[error]")
        /\ resp.status # 200 => gql.exc = "RuntimeError: HTTP"
        /\ (resp.status = 200 /\ resp.errors = "[error]") =>
              gql.raised /\ gql.exc = "RuntimeError: GraphQL errors"
    /\ (Called /\ resp.status = 0) => gql.raised
    /\ (Called /\ resp.status # 0 /\ resp.body # "json") =>
          /\ gql.raised
          /\ resp.status # 200 => gql.exc = "RuntimeError: HTTP"
    /\ Called => (gql.raised <=> gql.ret = "n/a")

\* a 200 response with errors and data has been refused
C6_Witness ==
    /\ JsonResponse /\ resp.status = 200 /\ resp.errors = "[error]"
    /\ resp.data = "object" /\ Len(resp.results) > 0
    /\ gql.raised

(* C7: whenever execute_graphql returns, it returns a dictionary: the data *)
(* object of the response, or an empty dictionary when the response has no *)
(* data, also when the data entry is null.                                 *)
C7_ReturnsDict ==
    (Called /\ ~gql.raised) =>
        /\ IsDict(gql.ret)
        /\ resp.data = "object" => gql.ret = "data"
        /\ resp.data # "object" => gql.ret = "{}"

-----------------------------------------------------------------------------
(* The reconciliation inputs, read from the parameters and the response *)

\* the category occurs in a row of the required list
InContract(c) ==
    \E i \in DOMAIN params.required_categories :
        params.required_categories[i].category = c

\* the count the response reports for the category: the count of its last
\* entry, 0 when it has none
ReportedCount(c) ==
    LET values == IF HasBlock(resp) THEN resp.values ELSE <<>>
        at == {i \in DOMAIN values : values[i].value = c}
    IN  IF at = {} THEN 0
        ELSE values[CHOOSE i \in at : \A j \in at : j <= i].count

FourWayText(in_contract, in_model) ==
    CASE in_contract /\ in_model -> "Present in contract and model"
      [] in_contract /\ ~in_model -> "In contract but not in model"
      [] ~in_contract /\ in_model -> "Missing in the contract"
      [] OTHER -> "Not in contract, not in model"

SummaryDone == op = "view_category_summary" /\ pc = "done"

(* C8: for every category of the master list, view_category_summary        *)
(* reports the one of the four classifications that in_contract (the       *)
(* category is in a row of the required list) and in_model (its reported   *)
(* count, 0 if none, is greater than 0) determine.                         *)
C8_FourWayClassification ==
    SummaryDone =>
        /\ Len(result.rows) = Len(all_categories)
        /\ \A i \in 1..Len(all_categories) :
              /\ result.rows[i].category = all_categories[i]
              /\ result.rows[i].status_text =
                    FourWayText(InContract(all_categories[i]),
                                ReportedCount(all_categories[i]) > 0)

\* a summary in which all four classifications occur
C8_Witness ==
    /\ SummaryDone
    /\ \A t \in {"Present in contract and model", "In contract but not in model",
                 "Missing in the contract", "Not in contract, not in model"} :
          \E i \in 1..Len(result.rows) : result.rows[i].status_text = t

(* C9: the summary does not depend on the order of the rows of the         *)
(* required list nor on how often a category occurs in it: any required    *)
(* list with the same categories gives, from the same counts, the same     *)
(* classification and count for every category.                            *)
C9_OrderIndependent ==
    SummaryDone =>
        \A rows2 \in RowSeqs :
            {rows2[i].category : i \in DOMAIN rows2}
              = {params.required_categories[i].category :
                    i \in DOMAIN params.required_categories}
            => SummaryTable(rows2, model_category_counts) = result

\* a summary of a required list of two different categories, one of which
\* is in the model
C9_Witness ==
    /\ SummaryDone
    /\ Len(params.required_categories) = 2
    /\ params.required_categories[1].category = "Walls"
    /\ params.required_categories[2].category = "Structural Framing"
    /\ result.rows[1].status_text = "Present in contract and model"
    /\ result.rows[4].status_text = "In contract but not in model"

ReconcileEnded == op \in ReconcileOps /\ pc \in {"done", "raised"}

-----------------------------------------------------------------------------
(* A session: invocations one after another against the same API.  The     *)
(* names of a method hold nothing between invocations; here the values the *)
(* last invocation left stand until a method binds its names anew, so that *)
(* an invocation that used one of them would show.                         *)

\* the invocation is over and the controller waits for the next one
NextRender ==
    /\ pc \in {"done", "raised"}
    /\ op' = "none" /\ pc' = "idle"
    /\ params' = NoParams
    /\ token_requests' = 0
    /\ catIdx' = 0 /\ pageNo' = 0
    /\ request' = NoRequest /\ resp' = NoResponse /\ gql' = NoCall
    /\ outcome' = "none"
    /\ warnings' = <<>> /\ gql_log' = <<>>
    /\ result' = NoResult /\ error' = ""
    /\ UNCHANGED <<cursor, all_instances, external_ids_with_colors,
                   model_category_counts, served>>

\* the APIs, required lists and aggregate responses of a session
SessionApis == {s \in ServedSeqs : Len(s) <= 2}

SessionRows == {<<>>} \cup {<<row>> : row \in Rows}

SessionCounts ==
    {RequestFailed,
     Response(200, "json", "absent", "object", "object", <<>>, None,
              <<[value |-> "Walls", count |-> 3]>>),
     Response(200, "json", "absent", "object", "object", <<>>, None,
              <<[value |-> "Doors", count |-> 3], [value |-> "Walls", count |-> 0]>>)}

InitSession ==
    /\ op = "none" /\ pc = "idle"
    /\ params = NoParams
    /\ token_requests = 0
    /\ catIdx = 0 /\ cursor = None /\ pageNo = 0
    /\ request = NoRequest /\ resp = NoResponse /\ gql = NoCall
    /\ outcome = "none"
    /\ all_instances = <<>> /\ external_ids_with_colors = <<>>
    /\ warnings = <<>> /\ gql_log = <<>>
    /\ model_category_counts = <<>>
    /\ result = NoResult /\ error = ""
    /\ served \in SessionApis

SessionColored ==
    /\ pc = "idle"
    /\ \E file \in BOOLEAN, rows \in SessionRows :
          view_colored_categories_start(file, rows)

SessionSummary ==
    /\ pc = "idle"
    /\ \E file \in BOOLEAN, rows \in SessionRows, r \in SessionCounts :
          Reconcile("view_category_summary", file, rows, r)

SessionData ==
    /\ pc = "idle"
    /\ \E file \in BOOLEAN, rows \in SessionRows, r \in SessionCounts :
          Reconcile("view_category_data", file, rows, r)

NextSession ==
    \/ StartFamily
    \/ ServedFamilyPage
    \/ SessionColored
    \/ ServedColoredPage
    \/ SessionSummary
    \/ SessionData
    \/ NextRender

SpecSession == InitSession /\ [][NextSession]_vars

RECURSIVE FetchedFrom(_, _, _)
\* the elements the stop rule lets a loop fetch from the API, when it has
\* sent the cursor c (None: no cursor) and may send n more requests
FetchedFrom(pages, c, n) ==
    LET i == IF c = None THEN 1 ELSE PageAfter(pages, c, 1)
        page == IF i <= Len(pages) THEN pages[i]
                ELSE [results |-> <<>>, cursor |-> None]
        last == \/ page.cursor \in {None, ""}
                \/ page.cursor = c
                \/ page.results = <<>>
    IN  IF n = 0 THEN <<>>
        ELSE page.results
               \o (IF last THEN <<>> ELSE FetchedFrom(pages, page.cursor, n - 1))

\* what a loop that starts without cursor fetches for one category
FetchedFresh == FetchedFrom(served, None, Len(served) + 1)

\* the names the response reports a count for
ReportedNames ==
    IF HasBlock(resp)
    THEN {resp.values[i].value : i \in DOMAIN resp.values} \ {""}
    ELSE {}

\* the invocation has begun and has not sent a page request yet
JustStarted == pc = "loop" /\ request = NoRequest

(* C11: no state is carried from one view invocation to the next.  Every   *)
(* invocation starts with no cursor and an empty collection, and when it   *)
(* returns, what it collected and what it returns are what its parameters  *)
(* and the API's answers give from a fresh start (for the paging views:    *)
(* the elements fetched without cursor first, for every category or row;   *)
(* for the reconciling views: the counts of the one response and no other  *)
(* name), whatever the invocations before it left behind.                  *)
C11_NothingCarriedOver ==
    /\ JustStarted => (cursor = None /\ Collected = <<>>)
    /\ (pc = "done" /\ op = "view_family_instances") =>
          /\ all_instances =
                Concat([c \in 1..Len(categories) |->
                          FamilyRecords(categories[c], FetchedFresh)])
          /\ result = FamilyTable(all_instances)
    /\ (pc = "done" /\ op = "view_colored_categories") =>
          /\ external_ids_with_colors =
                Concat([i \in 1..Len(params.required_categories) |->
                          ColoredEntries(FetchedFresh,
                              ColorHex(params.required_categories[i].color))])
          /\ result = WebResult(external_ids_with_colors)
    /\ (pc = "done" /\ op \in {"view_category_summary", "view_category_data"}) =>
          /\ DOMAIN model_category_counts = ReportedNames
          /\ \A c \in ReportedNames :
                model_category_counts[c] = ReportedCount(c)
          /\ result = Present(op, params.required_categories,
                              model_category_counts)

\* view_family_instances has returned records, after a colored view and a
\* reconciling view that left a collection and counts behind
C11_Witness ==
    /\ pc = "done" /\ op = "view_family_instances"
    /\ Len(all_instances) > Len(categories)
    /\ external_ids_with_colors # <<>>
    /\ model_category_counts # <<>>
    /\ cursor # None

-----------------------------------------------------------------------------
\* the positions of the master list
MasterIdx == 1..Len(all_categories)

\* the name is a category of the master list
InMasterList(n) == \E i \in MasterIdx : all_categories[i] = n

(* C12: the category summary has exactly one row per category of the       *)
(* master list, in master-list order, whatever the required list and the   *)
(* model contain; a name the model reports with a nonzero count that is    *)
(* not in the master list has no row, and it adds nothing to the rows      *)
(* reported as missing in the contract.                                    *)
C12_OneRowPerMasterCategory ==
    SummaryDone =>
        /\ Len(result.rows) = Len(all_categories)
        /\ \A i \in MasterIdx : result.rows[i].category = all_categories[i]
        /\ \A n \in ReportedNames :
              ~InMasterList(n) =>
                  \A i \in DOMAIN result.rows : result.rows[i].category # n
        /\ {i \in DOMAIN result.rows :
                result.rows[i].status_text = "Missing in the contract"}
             = {i \in MasterIdx : /\ ~InContract(all_categories[i])
                                  /\ ReportedCount(all_categories[i]) > 0}

\* a summary of a model that reports elements of a category outside the
\* master list, and of nothing else that the contract lacks
C12_Witness ==
    /\ SummaryDone
    /\ ReportedCount("Generic Models") > 0
    /\ ReportedCount("Walls") > 0 /\ InContract("Walls")
    /\ \A i \in DOMAIN result.rows :
          result.rows[i].status_text # "Missing in the contract"

-----------------------------------------------------------------------------
(* The classification an adapter's output gives a category, read from the  *)
(* output: from the description of its row in the table and the document,  *)
(* from the group that holds its item in the data tree.                    *)

ClassOfText(t) ==
    CASE t \in {"Present in contract and model", "Present (n elements)"} -> "present"
      [] t = "In contract but not in model" -> "missing_from_model"
      [] t = "Missing in the contract" -> "missing_from_contract"
      [] t = "Not in contract, not in model" -> "not_applicable"
      [] OTHER -> "unknown"

\* the labels of the groups of a data tree that hold an item of category c
GroupsOf(tree, c) ==
    {tree.rows[k].label : k \in {j \in DOMAIN tree.rows :
        \E m \in DOMAIN tree.rows[j].items : tree.rows[j].items[m].category = c}}

\* the descriptions of the rows of a table or document for category c
TextsOf(table, c) ==
    {table.rows[i].status_text : i \in {j \in DOMAIN table.rows :
                                          table.rows[j].category = c}}

AdapterClass(res, c) ==
    LET found == IF res.kind = "DataResult" THEN GroupsOf(res, c)
                 ELSE {ClassOfText(t) : t \in TextsOf(res, c)}
    IN  IF Cardinality(found) = 1 THEN CHOOSE x \in found : TRUE
        ELSE "none or several"

FourWayClass(in_contract, in_model) == ClassOfText(FourWayText(in_contract, in_model))

ReconcileDone == op \in ReconcileOps /\ pc = "done"

(* C13: the three reconciliation adapters agree.  From the required list   *)
(* and the counts of an invocation, the table, the data tree and the       *)
(* document give every category of the master list the same one of the     *)
(* four classifications, the one the invocation's own result gives it,     *)
(* which is the one in_contract and in_model determine.                    *)
C13_AdaptersAgree ==
    ReconcileDone =>
        LET rows == params.required_categories
            table == SummaryTable(rows, model_category_counts)
            tree == DataTree(rows, model_category_counts)
            document == ReportDocument(rows, model_category_counts)
        IN  \A i \in MasterIdx :
                LET c == all_categories[i]
                    class == FourWayClass(InContract(c), ReportedCount(c) > 0)
                IN  /\ AdapterClass(result, c) = class
                    /\ AdapterClass(table, c) = class
                    /\ AdapterClass(tree, c) = class
                    /\ AdapterClass(document, c) = class

\* a document in which all four classifications occur
C13_Witness ==
    /\ ReconcileDone /\ op = "download_category_report"
    /\ {AdapterClass(result, all_categories[i]) : i \in MasterIdx}
         = {"present", "missing_from_model", "missing_from_contract",
            "not_applicable"}

-----------------------------------------------------------------------------
\* the response is malformed where the counts are read: an entry of values
\* is not an object, or the count that stands for a master-list category
\* is null
MalformedCounts(r) ==
    /\ HasBlock(r)
    /\ \/ \E i \in DOMAIN r.values : r.values[i] = NullEntry
       \/ \E c \in ReportedNames : InMasterList(c) /\ ReportedCount(c) = NullCount

\* fetching or reading the counts fails on this response: no response, a
\* status other than 200, a body that is not a JSON object, GraphQL errors,
\* data that is null, or malformed counts
FetchFails(r) ==
    \/ r.status # 200
    \/ r.body # "json"
    \/ r.errors = "[error]"
    \/ r.data = "null"
    \/ MalformedCounts(r)

(* C14: in the reconciliation operations, any failure while fetching or    *)
(* reading the aggregate counts (no or a non-200 response, GraphQL errors, *)
(* a malformed response) ends the invocation with the user error 'Failed   *)
(* to fetch categories from model', and no table, data tree or document is *)
(* returned; without such a failure the invocation returns its result.     *)
C14_FetchFailureIsUserError ==
    (ReconcileEnded /\ params.autodesk_file) =>
        /\ FetchFails(resp) <=> pc = "raised"
        /\ pc = "raised" => (error = FetchError /\ result = NoResult)
        /\ pc = "done" => (error = "" /\ result.kind # "none")

(* What holds of C14: a failure inside the try block (the request, the     *)
(* status, the body, GraphQL errors, null data, an entry that is not an    *)
(* object) ends the invocation with the user error, also when some counts  *)
(* had been read; no failure ever leaves a result.                         *)
C14_NoResultOnFailure ==
    (ReconcileEnded /\ params.autodesk_file) =>
        /\ FetchFails(resp) <=> pc = "raised"
        /\ pc = "raised" =>
              /\ result = NoResult
              /\ error \in {FetchError, "TypeError"}
              /\ error = "TypeError" <=>
                    /\ resp.status = 200 /\ resp.body = "json"
                    /\ resp.errors # "[error]" /\ resp.data # "null"
                    /\ \A i \in DOMAIN resp.values : resp.values[i] # NullEntry
        /\ pc = "done" => (error = "" /\ result.kind # "none")

\* view_category_data has ended with the user error after it had read the
\* count of one category
C14_Witness ==
    /\ op = "view_category_data" /\ pc = "raised"
    /\ error = FetchError /\ result = NoResult
    /\ DOMAIN model_category_counts = {"Walls"}

-----------------------------------------------------------------------------
\* the page request that got this response failed: no response, a status
\* other than 200, a body that is not a JSON object, GraphQL errors, or
\* data that is null
PageFails(r) ==
    \/ r.status # 200
    \/ r.body # "json"
    \/ r.errors = "[error]"
    \/ r.data = "null"

\* this step is an iteration of a pagination loop
PageStep == pc = "loop" /\ request' # request

(* C15: in view_colored_categories, a failed page request emits one        *)
(* warning that names the row's category, ends the pagination of that row  *)
(* only, keeps every entry collected so far and adds none, and raises      *)
(* nothing; the loop of the next row starts, without cursor, or after the  *)
(* last row the view returns its result with the entries collected.        *)
C15_FailedPageWarnsAndGoesOn ==
    [][(op = "view_colored_categories" /\ PageStep /\ PageFails(resp')) =>
          LET rows == params.required_categories
          IN  /\ outcome' = "raise"
              /\ Len(warnings') = Len(warnings) + 1
              /\ warnings'[Len(warnings')].category = rows[catIdx].category
              /\ SubSeq(warnings', 1, Len(warnings)) = warnings
              /\ external_ids_with_colors' = external_ids_with_colors
              /\ pc' # "raised" /\ error' = ""
              /\ catIdx < Len(rows) =>
                    /\ pc' = "loop" /\ catIdx' = catIdx + 1
                    /\ cursor' = None /\ result' = NoResult
              /\ catIdx = Len(rows) =>
                    /\ pc' = "done"
                    /\ result' = WebResult(external_ids_with_colors)]_vars

\* the second page request of the first row has failed after the first page
\* had given an entry; the entry is kept and the second row is next
C15_Witness ==
    /\ op = "view_colored_categories" /\ outcome = "raise"
    /\ request.idx = 1 /\ request.page = 2 /\ PageFails(resp)
    /\ Len(warnings) = 1 /\ Len(external_ids_with_colors) = 1
    /\ pc = "loop" /\ catIdx = 2

-----------------------------------------------------------------------------
\* the exception a failed page request ends in
ErrorOf(r) ==
    CASE r.status = 0 -> "RequestException"
      [] r.status # 200 -> "RuntimeError: HTTP"
      [] r.body # "json" -> "ValueError"
      [] r.errors = "[error]" -> "RuntimeError: GraphQL errors"
      [] OTHER -> "AttributeError"

(* C16: in view_family_instances, a failed page request, for any category  *)
(* at any page, ends the whole invocation with that error: no table is     *)
(* returned, the records collected before are not reported, and no         *)
(* request follows, neither for this nor for a later category.             *)
C16_FailedPageAborts ==
    [][/\ (op = "view_family_instances" /\ PageStep /\ PageFails(resp')) =>
             /\ pc' = "raised" /\ error' = ErrorOf(resp')
             /\ result' = NoResult
             /\ outcome' = "raise"
             /\ warnings' = warnings
       /\ (op = "view_family_instances" /\ pc = "raised") =>
             /\ result = NoResult
             /\ pc' = "idle" /\ request' = NoRequest /\ result' = NoResult]_vars

\* the second page request of the second category has failed after records
\* had been collected
C16_Witness ==
    /\ op = "view_family_instances" /\ pc = "raised"
    /\ request.idx = 2 /\ request.page = 2 /\ PageFails(resp)
    /\ error = "RuntimeError: GraphQL errors"
    /\ Len(all_instances) = 2 /\ result = NoResult

-----------------------------------------------------------------------------
\* the value of the last property of this name, "Unknown" when the element
\* has none or its value is empty
LastValue(props, name) ==
    LET at == {i \in DOMAIN props : props[i].name = name}
        last == CHOOSE i \in at : \A j \in at : j <= i
    IN  IF at = {} THEN "Unknown"
        ELSE IF props[last].value \in {None, ""} THEN "Unknown"
        ELSE props[last].value

\* the record of an element fetched for a category
RecordOf(category, e) ==
    [category |-> category,
     family_name |-> LastValue(e.properties, "Family Name"),
     type_name |-> LastValue(e.properties, "Type Name"),
     element_name |-> e.name]

(* C17: for any API behaviour, the records view_family_instances collects  *)
(* are the elements of every page it fetched, the page on which a loop     *)
(* stopped included, in category order, then page order, then in-page      *)
(* order: every page received appends one record per element, in order,    *)
(* under the category of the request, nothing else changes the collection, *)
(* categories are gone through in order; the table has one row per record, *)
(* or the single message row when nothing was collected.                   *)
C17_RecordsAreFetchedElements ==
    [][/\ (op = "view_family_instances" /\ PageStep) =>
             LET page == IF PageFails(resp') THEN <<>> ELSE ReturnedPage(resp')
                 category == categories[request'.idx]
             IN  /\ request'.idx = catIdx
                 /\ all_instances' =
                       all_instances
                         \o [i \in 1..Len(page) |-> RecordOf(category, page[i])]
                 /\ catIdx' \in {catIdx, catIdx + 1}
                 /\ pc' = "done" =>
                       /\ catIdx = Len(categories)
                       /\ IF all_instances' = <<>>
                          THEN result'.rows =
                                 <<<<"No family instances found in the selected categories">>>>
                          ELSE result'.rows =
                                 [i \in 1..Len(all_instances') |->
                                    <<all_instances'[i].category,
                                      all_instances'[i].family_name,
                                      all_instances'[i].type_name,
                                      all_instances'[i].element_name>>]
       /\ (op = "view_family_instances" /\ pc \in {"loop", "done"} /\ ~PageStep) =>
             all_instances' \in {all_instances, <<>>}
       /\ (op' = "view_family_instances" /\ pc = "idle") =>
             (pc' = "loop" => all_instances' = <<>> /\ catIdx' = 1)]_vars

\* the view has returned a table of two rows: the elements of a page of the
\* first category and of the page on which the loop of the last one stopped
C17_Witness ==
    /\ op = "view_family_instances" /\ pc = "done"
    /\ Len(result.rows) = 2 /\ Len(all_instances) = 2
    /\ result.rows[1] = <<"Structural Framing", "W-Shape", "W12", "B1">>
    /\ result.rows[2] = <<"Windows", "Unknown", "Unknown", "B2">>
    /\ outcome = "stop" /\ ReturnedPage(resp) = <<E2>>

-----------------------------------------------------------------------------
(* The viewer page of view_colored_categories: the script of the page      *)
(* builds its colour map from the entries that the view has put into it.   *)

RECURSIVE BuildColorMap(_, _)
\* the loop of buildExternalColorMap: map[extId] = color for every entry
\* that has an ID and a colour
BuildColorMap(list, map) ==
    IF list = <<>> THEN map
    ELSE LET extId == Head(list).id
             color == Head(list).color
         IN  BuildColorMap(Tail(list),
                 IF Truthy(extId) /\ color # <<>>
                 THEN [k \in DOMAIN map \cup {extId} |->
                          IF k = extId THEN color ELSE map[k]]
                 ELSE map)

\* a map that keeps the colour of the first entry of an ID
buildExternalColorMap_FirstWins(list) ==
    LET ids == {list[i].id : i \in DOMAIN list}
    IN  [k \in ids |->
            list[CHOOSE i \in DOMAIN list :
                    /\ list[i].id = k
                    /\ \A j \in DOMAIN list : list[j].id = k => i <= j].color]

buildExternalColorMap(list) == BuildColorMap(list, <<>>)

\* rows whose category repeats with another colour
ViewerRowKinds ==
    Rows \cup {[category |-> "Structural Framing", color |-> <<0, 255, 0>>]}

ViewerRows == SeqsUpTo(ViewerRowKinds, MaxRows)

ViewerColored ==
    /\ pc = "idle"
    /\ \E file \in BOOLEAN, rows \in ViewerRows :
          view_colored_categories_start(file, rows)

NextViewer ==
    \/ ViewerColored
    \/ ServedColoredPage
    \/ Return

SpecViewer == InitSession /\ [][NextViewer]_vars

\* the entries a page adds for a row of this colour: one per element that
\* has an external ID, in the order of the page
EntriesOf(page, color) ==
    LET withId == SelectSeq(page, LAMBDA e : e.externalElementId \notin {None, ""})
    IN  [i \in 1..Len(withId) |->
            [id |-> withId[i].externalElementId, color |-> ColorHex(color)]]

\* the colour of the last entry of the list that has this ID
LastColor(list, id) ==
    LET at == {i \in DOMAIN list : list[i].id = id}
    IN  list[CHOOSE i \in at : \A j \in at : j <= i].color

-----------------------------------------------------------------------------
DataDone == op = "view_category_data" /\ pc = "done"

\* the places (group, position) of the items of a data tree
ItemPlaces(tree) ==
    UNION {{<<k, m>> : m \in DOMAIN tree.rows[k].items} : k \in DOMAIN tree.rows}

FourClasses == {"present", "missing_from_model", "missing_from_contract",
                "not_applicable"}

(* C19: in view_category_data the four status groups partition the master  *)
(* list: every master-list category has exactly one item, in the group of  *)
(* its classification, the sizes of the groups sum to the length of the    *)
(* master list, and a group is shown in the result if and only if it is    *)
(* not empty.                                                              *)
C19_GroupsPartitionMasterList ==
    DataDone =>
        LET groups == result.rows
            classOf(c) == FourWayClass(InContract(c), ReportedCount(c) > 0)
        IN  /\ \A i \in MasterIdx :
                  /\ Cardinality({p \in ItemPlaces(result) :
                        groups[p[1]].items[p[2]].category = all_categories[i]}) = 1
                  /\ \E p \in ItemPlaces(result) :
                        /\ groups[p[1]].items[p[2]].category = all_categories[i]
                        /\ groups[p[1]].label = classOf(all_categories[i])
            /\ Cardinality(ItemPlaces(result)) = Len(all_categories)
            /\ \A k \in DOMAIN groups : Len(groups[k].items) > 0
            /\ \A k, l \in DOMAIN groups : groups[k].label = groups[l].label => k = l
            /\ \A class \in FourClasses :
                  (\E k \in DOMAIN groups : groups[k].label = class)
                    <=> (\E i \in MasterIdx : classOf(all_categories[i]) = class)

\* a data tree of two groups: one category is in the model only, the other
\* nineteen are nowhere, and the two groups of required categories are not
\* shown
C19_Witness ==
    /\ DataDone
    /\ Len(result.rows) = 2
    /\ result.rows[1].label = "missing_from_contract"
    /\ Len(result.rows[1].items) = 1
    /\ result.rows[2].label = "not_applicable"
    /\ Len(result.rows[2].items) = 19

-----------------------------------------------------------------------------
\* the distinct categories of the rows of the required list
DistinctRequired ==
    {params.required_categories[i].category :
        i \in DOMAIN params.required_categories}

(* C20: in view_category_data, 'Categories in Contract' is the number of   *)
(* distinct required categories; 'Contract Categories Found' is the number *)
(* of those whose model count is greater than 0, and never exceeds         *)
(* 'Categories in Contract'; its status is SUCCESS if and only if every    *)
(* distinct required category has a model count greater than 0, so also    *)
(* for an empty required list, and WARNING otherwise.                      *)
C20_ContractStatistics ==
    DataDone =>
        LET found == {c \in DistinctRequired : ReportedCount(c) > 0}
        IN  /\ result.categories_in_contract = Cardinality(DistinctRequired)
            /\ result.categories_matched = Cardinality(found)
            /\ result.categories_matched <= result.categories_in_contract
            /\ result.matched_status \in {"SUCCESS", "WARNING"}
            /\ result.matched_status = "SUCCESS" <=> found = DistinctRequired
            /\ params.required_categories = <<>> => result.matched_status = "SUCCESS"

\* a required list of two rows of one category, which the model has: one
\* category in contract, one found, SUCCESS
C20_Witness ==
    /\ DataDone
    /\ Len(params.required_categories) = 2
    /\ result.categories_in_contract = 1
    /\ result.categories_matched = 1
    /\ result.matched_status = "SUCCESS"

-----------------------------------------------------------------------------
(* The file check at the head of every method.  The methods read           *)
(* params.autodesk_file, while Parametrization declares file_field and no  *)
(* autodesk_file (that field is commented out): params holds a selected    *)
(* file, or an empty value, or has no such entry at all, and then reading  *)
(* the attribute raises AttributeError.                                    *)

AutodeskFileValues == {"selected", "empty", "undeclared"}

\* `if not params.autodesk_file: raise vkt.UserError(...)`: the error the
\* check ends in, "" when it passes
FileCheck(v) ==
    CASE v = "undeclared" -> "AttributeError"
      [] v = "empty" -> SelectFileError
      [] OTHER -> ""

AllOps == ReconcileOps \cup {"view_autodesk_model", "view_family_instances",
                             "view_colored_categories"}

\* a method whose params have no autodesk_file: the read in the condition
\* of the file check raises, and the method is over
UndeclaredFile(method, rows) ==
    /\ op' = method /\ pc' = "raised"
    /\ params' = [autodesk_file |-> FALSE, required_categories |-> rows]
    /\ error' = FileCheck("undeclared")
    /\ token_requests' = 0
    /\ catIdx' = 0 /\ pageNo' = 0
    /\ request' = NoRequest /\ resp' = NoResponse /\ gql' = NoCall
    /\ outcome' = "none" /\ warnings' = <<>> /\ gql_log' = <<>>
    /\ result' = NoResult
    /\ UNCHANGED <<cursor, all_instances, external_ids_with_colors,
                   model_category_counts, served>>

\* view_autodesk_model: the file check, the access token, the result
AutodeskModel(v) ==
    /\ op' = "view_autodesk_model"
    /\ params' = [autodesk_file |-> v = "selected", required_categories |-> <<>>]
    /\ catIdx' = 0 /\ pageNo' = 0
    /\ request' = NoRequest /\ resp' = NoResponse /\ gql' = NoCall
    /\ outcome' = "none" /\ warnings' = <<>> /\ gql_log' = <<>>
    /\ UNCHANGED <<cursor, all_instances, external_ids_with_colors,
                   model_category_counts, served>>
    /\ IF FileCheck(v) # ""
       THEN /\ pc' = "raised" /\ error' = FileCheck(v)
            /\ token_requests' = 0
            /\ result' = NoResult
       ELSE /\ pc' = "done" /\ error' = ""
            /\ token_requests' = 1
            /\ result' = [kind |-> "AutodeskResult", rows |-> <<>>]

view_autodesk_model ==
    /\ pc = "idle"
    /\ \E v \in AutodeskFileValues : AutodeskModel(v)

view_family_instances ==
    /\ pc = "idle"
    /\ \E v \in AutodeskFileValues :
          IF v = "undeclared" THEN UndeclaredFile("view_family_instances", <<>>)
          ELSE view_family_instances_start(v = "selected")

view_colored_categories ==
    /\ pc = "idle"
    /\ \E v \in AutodeskFileValues, rows \in SessionRows :
          IF v = "undeclared" THEN UndeclaredFile("view_colored_categories", rows)
          ELSE view_colored_categories_start(v = "selected", rows)

\* a reconciliation method, from the file check on
ReconcileFrom(method) ==
    /\ pc = "idle"
    /\ \E v \in AutodeskFileValues, rows \in SessionRows, r \in SessionCounts :
          IF v = "undeclared" THEN UndeclaredFile(method, rows)
          ELSE Reconcile(method, v = "selected", rows, r)

CategorySummary == ReconcileFrom("view_category_summary")

CategoryData == ReconcileFrom("view_category_data")

CategoryReport == ReconcileFrom("download_category_report")

NextFileCheck ==
    \/ view_autodesk_model
    \/ view_family_instances
    \/ ServedFamilyPage
    \/ view_colored_categories
    \/ ServedColoredPage
    \/ CategorySummary
    \/ CategoryData
    \/ CategoryReport
    \/ Return

SpecFileCheck == InitSession /\ [][NextFileCheck]_vars

\* a method has been invoked without a selected Autodesk file
NoFileSelected == op \in AllOps /\ ~params.autodesk_file

NothingRequested ==
    /\ token_requests = 0
    /\ gql_log = <<>> /\ request = NoRequest /\ resp = NoResponse
    /\ gql = NoCall

(* C21: in every view and in the report download, when no Autodesk file is *)
(* selected the invocation ends with the user error 'Please select an      *)
(* Autodesk file from the input field above', before any access token is   *)
(* requested and before any GraphQL request is sent.                       *)
C21_NoFileIsUserError ==
    NoFileSelected =>
        /\ pc = "raised" /\ error = SelectFileError
        /\ result = NoResult
        /\ NothingRequested

(* What holds of C21: without a selected file every method ends in an      *)
(* error and returns nothing, before any access token is requested and     *)
(* before any GraphQL request is sent; the error is the user error when    *)
(* params has an empty autodesk_file, and an AttributeError when params    *)
(* has no autodesk_file.  With a selected file a token is requested.       *)
C21_NothingBeforeFileCheck ==
    /\ NoFileSelected =>
          /\ pc = "raised" /\ error \in {SelectFileError, "AttributeError"}
          /\ result = NoResult
          /\ NothingRequested
    /\ (op \in AllOps /\ params.autodesk_file) => token_requests = 1

\* the report download has ended with the user error, nothing requested
C21_Witness ==
    /\ op = "download_category_report" /\ pc = "raised"
    /\ ~params.autodesk_file /\ error = SelectFileError
    /\ NothingRequested

=============================================================================
